---- MODULE Spec2Model ----
(***************************************************************************)
(* Ride lifecycle of Backend-Bot (app/crud/ride.py): RideCrud.create and   *)
(* RideCrud.change_status running in concurrent database sessions against  *)
(* the rides table and the ride_status_history table.                      *)
(*                                                                         *)
(* A session's writes become visible to the others when it commits.  The   *)
(* single statement of change_status reads the ride row FOR UPDATE, so it  *)
(* waits while another session holds the row lock and then sees the latest *)
(* committed row; the lock is kept until the session ends.                 *)
(***************************************************************************)
EXTENDS Integers, Sequences, FiniteSets, TLC

\* ------------------------------------------------------------- bounds
MaxRides == 1
MaxCalls == 2
MaxClock == 2
MaxOps == 2

RideIds == 1..MaxRides
Calls == 1..MaxCalls

\* SQL NULL / Python None of a text column, and of a timestamp column.
NULL == "NULL"
NoTime == 0

\* ------------------------------------------------------------- policy
STATUSES ==
  {"requested", "driver_assigned", "accepted", "arrived", "started",
   "completed", "canceled"}

\* A table in which the client may also cancel once the driver has arrived.
TransitionsClientCancelsArrived ==
  [client |->
     [requested |-> {"canceled"},
      driver_assigned |-> {"canceled"},
      accepted |-> {"canceled"},
      arrived |-> {"canceled"}],
   driver |->
     [driver_assigned |-> {"accepted", "canceled"},
      accepted |-> {"arrived", "canceled"},
      arrived |-> {"started", "canceled"},
      started |-> {"completed", "canceled"}],
   system |->
     [requested |-> {"driver_assigned", "canceled"},
      driver_assigned |-> {"accepted", "canceled"},
      accepted |-> {"arrived", "canceled"},
      arrived |-> {"started", "canceled"},
      started |-> {"completed", "canceled"}]]

\* A table in which the driver may also step back from arrived to accepted.
TransitionsDriverReturns ==
  [client |->
     [requested |-> {"canceled"},
      driver_assigned |-> {"canceled"},
      accepted |-> {"canceled"}],
   driver |->
     [driver_assigned |-> {"accepted", "canceled"},
      accepted |-> {"arrived", "canceled"},
      arrived |-> {"started", "canceled", "accepted"},
      started |-> {"completed", "canceled"}],
   system |->
     [requested |-> {"driver_assigned", "canceled"},
      driver_assigned |-> {"accepted", "canceled"},
      accepted |-> {"arrived", "canceled"},
      arrived |-> {"started", "canceled"},
      started |-> {"completed", "canceled"}]]

ALLOWED_TRANSITIONS ==
  [client |->
     [requested |-> {"canceled"},
      driver_assigned |-> {"canceled"},
      accepted |-> {"canceled"}],
   driver |->
     [driver_assigned |-> {"accepted", "canceled"},
      accepted |-> {"arrived", "canceled"},
      arrived |-> {"started", "canceled"},
      started |-> {"completed", "canceled"}],
   system |->
     [requested |-> {"driver_assigned", "canceled"},
      driver_assigned |-> {"accepted", "canceled"},
      accepted |-> {"arrived", "canceled"},
      arrived |-> {"started", "canceled"},
      started |-> {"completed", "canceled"}]]

\* ALLOWED_TRANSITIONS.get(role, {})
RoleMap(role) ==
  IF role \in DOMAIN ALLOWED_TRANSITIONS THEN ALLOWED_TRANSITIONS[role] ELSE <<>>

\* A lookup that tests the set of targets for being non-empty: "if tos".
AllowedFromAnyTarget(role, to_status) ==
  {from_s \in DOMAIN RoleMap(role) : RoleMap(role)[from_s] # {}}

\* [from_s for from_s, tos in role_map.items() if to_status in tos]
AllowedFrom(role, to_status) ==
  {from_s \in DOMAIN RoleMap(role) : to_status \in RoleMap(role)[from_s]}

\* The check of the target left out.
IsStatusUnchecked(to_status) == TRUE

\* to_status in STATUSES
IsStatus(to_status) == to_status \in STATUSES

\* The early return on an empty allowed_from left out.
NoneAllowedUnchecked(allowed_from) == FALSE

\* not allowed_from
NoneAllowed(allowed_from) == allowed_from = {}

\* ------------------------------------------------------------- inputs
\* What a caller may put into a RideStatusChangeRequest.
InRoles == {"client", "driver", "system", "admin"}
InStatuses == STATUSES \cup {"teleported"}
InReasons == {NULL, "r1"}
InActorIds == {2}

\* The creation inputs: RideCreate carries the client and the trip fields, and
\* neither a status nor the status timestamps.
RideCreateInputs ==
  {[client_id |-> 1, dropoff_address |-> "a1"],
   [client_id |-> 3, dropoff_address |-> "a1"]}
NoValues == [client_id |-> 0]

\* What a caller may put into a RideUpdate: trip fields, and no status.
RideUpdateInputs == {[dropoff_address |-> "a2"]}

\* ------------------------------------------------------------- state
VARIABLES
  rides,    \* committed rows of table rides; a ride's id is its index
  history,  \* committed rows of ride_status_history, per ride_id, in commit order
  calls,    \* the running calls (one database session each)
  clock,    \* the time source read by NOW() and datetime.utcnow()
  ops,      \* the number of requests received so far
  active_connections,  \* ConnectionManager: user_id -> list of websockets
  ride_participants,   \* ConnectionManager: ride_id -> set of user ids
  sockets,  \* the websockets: their endpoint coroutine and their client
  sends,    \* the running calls of send_personal_message
  bcast,    \* the running call of broadcast
  users,         \* committed rows of table users
  transactions,  \* committed rows of table transactions
  bal            \* the running calls of update_user_balance

ridevars == <<rides, history, calls, clock, ops>>
wsvars == <<active_connections, ride_participants, sockets, sends, bcast>>
balvars == <<users, transactions, bal>>
vars == <<rides, history, calls, clock, ops, wsvars, balvars>>

IdleCall ==
  [pc |-> "idle", op |-> "none", values |-> NoValues, ride_id |-> 0,
   to_status |-> NULL, role |-> NULL, reason |-> NULL, actor_id |-> 0,
   now |-> NoTime, prev |-> "NotRead", result |-> NULL, sql |-> 0]

\* what is left of a row that a committed DELETE has removed: its id is used
\* up and no statement finds it
Gone == [status |-> "gone"]

\* A lookup that still finds the rows that were deleted.
ExistsOnceCreated(ride_id) == ride_id \in DOMAIN rides

Exists(ride_id) == ride_id \in DOMAIN rides /\ rides[ride_id] # Gone

\* a request is served by the first free session of the pool
FirstFree(c) ==
  /\ calls[c].pc = "idle"
  /\ \A d \in Calls : d < c => calls[d].pc # "idle"

\* ------------------------------------------------------------- create
\* values.get(name), with the column's default when the key is absent
Field(values, name, default) ==
  IF name \in DOMAIN values THEN values[name] ELSE default

\* A creation that leaves the status to the input.
CreateStatusUnset(values) == Field(values, "status", NULL)

\* values.setdefault("status", "requested")
CreateStatus(values) == Field(values, "status", "requested")

\* insert(Ride).values(values).returning(Ride)
NewRide(values) ==
  [client_id |-> values.client_id,
   dropoff_address |-> Field(values, "dropoff_address", NULL),
   status |-> CreateStatus(values),
   status_reason |-> NULL,
   started_at |-> Field(values, "started_at", NoTime),
   completed_at |-> Field(values, "completed_at", NoTime),
   canceled_at |-> Field(values, "canceled_at", NoTime),
   cancellation_reason |-> NULL]

\* A first entry that names requested as the status before.
GenesisFromRequested(values, now) ==
  [from_status |-> "requested", to_status |-> "requested",
   changed_by |-> values.client_id, actor_role |-> "client",
   reason |-> NULL, created_at |-> now]

\* insert(RideStatusHistory).values(...): the genesis entry
Genesis(values, now) ==
  [from_status |-> NULL, to_status |-> "requested",
   changed_by |-> values.client_id, actor_role |-> "client",
   reason |-> NULL, created_at |-> now]

\* creations that have inserted and not yet committed
PendingCreates ==
  {c \in Calls : calls[c].op = "create" /\ calls[c].pc \in {"begun", "executed"}}

\* RideCrud.create up to the first insert: the ride row is inserted in the
\* caller's session
Create(c, values) ==
  /\ FirstFree(c)
  /\ ops < MaxOps
  /\ Len(rides) + Cardinality(PendingCreates) < MaxRides
  /\ calls' = [calls EXCEPT ![c] =
       [IdleCall EXCEPT !.pc = "begun", !.op = "create", !.values = values,
                        !.sql = 1]]
  /\ ops' = ops + 1
  /\ UNCHANGED <<rides, history, clock, wsvars, balvars>>

\* RideCrud.create, the second insert: the genesis entry, in the same session
CreateHistory(c) ==
  /\ calls[c].pc = "begun"
  /\ calls[c].op = "create"
  /\ calls' = [calls EXCEPT ![c] =
       [@ EXCEPT !.pc = "executed", !.now = clock, !.result = "Ride", !.sql = 2]]
  /\ UNCHANGED <<rides, history, clock, ops, wsvars, balvars>>

\* ------------------------------------------------------ change_status
\* A SET clause that stamps the three times without looking at the target.
UpdStampsAlways(r, to_status, reason, now) ==
  [r EXCEPT
     !.status = to_status,
     !.status_reason = reason,
     !.started_at = now,
     !.completed_at = now,
     !.canceled_at = now,
     !.cancellation_reason =
        IF to_status = "canceled" THEN reason ELSE r.cancellation_reason]

\* A SET clause that keeps the old status_reason when the call carries none.
UpdReasonCoalesced(r, to_status, reason, now) ==
  [r EXCEPT
     !.status = to_status,
     !.status_reason = IF reason = NULL THEN r.status_reason ELSE reason,
     !.started_at = IF to_status = "started" THEN now ELSE r.started_at,
     !.completed_at = IF to_status = "completed" THEN now ELSE r.completed_at,
     !.canceled_at = IF to_status = "canceled" THEN now ELSE r.canceled_at,
     !.cancellation_reason =
        IF to_status = "canceled" THEN reason ELSE r.cancellation_reason]

\* the SET clause of CTE upd
Upd(r, to_status, reason, now) ==
  [r EXCEPT
     !.status = to_status,
     !.status_reason = reason,
     !.started_at = IF to_status = "started" THEN now ELSE r.started_at,
     !.completed_at = IF to_status = "completed" THEN now ELSE r.completed_at,
     !.canceled_at = IF to_status = "canceled" THEN now ELSE r.canceled_at,
     !.cancellation_reason =
        IF to_status = "canceled" THEN reason ELSE r.cancellation_reason]

\* A WHERE clause that tests the id alone.
UpdMatchesAnyStatus(prev, allowed_from) == prev \in STATUSES

\* (SELECT from_status FROM prev) = ANY(:allowed_from); no row gives NULL
UpdMatches(prev, allowed_from) == prev \in allowed_from

\* An insert that is not conditioned on the update.
InsUnconditional(updated) == TRUE

\* WHERE EXISTS (SELECT 1 FROM upd)
InsCondition(updated) == updated

\* An insert with the two status columns in each other's place.
InsRowSwapped(call) ==
  [from_status |-> call.to_status, to_status |-> call.prev,
   changed_by |-> call.actor_id, actor_role |-> call.role,
   reason |-> call.reason, created_at |-> call.now]

\* the row CTE ins inserts
InsRow(call) ==
  [from_status |-> call.prev, to_status |-> call.to_status,
   changed_by |-> call.actor_id, actor_role |-> call.role,
   reason |-> call.reason, created_at |-> call.now]

\* A read of the status that takes no lock and waits for none.
NoRowLock(c, ride_id) == FALSE

\* A lock taken on the table: any session that has updated some ride and not
\* committed makes the others wait.
TableLockedByOther(c, ride_id) ==
  \E d \in Calls \ {c} :
    /\ calls[d].pc = "executed"
    /\ calls[d].op # "create"
    /\ calls[d].prev \in STATUSES \cup {"Rows"}

\* the rows a call's statement addresses by id
Targets(call) ==
  IF call.op = "batch_delete" THEN call.values.ids ELSE {call.ride_id}

\* A row lock that outlives its transaction: the session that took it keeps it
\* after it has committed.
LockKeptAfterCommit(c, ride_id) ==
  \E d \in Calls \ {c} :
    /\ calls[d].pc \in {"executed", "done"}
    /\ calls[d].op # "create"
    /\ ride_id \in Targets(calls[d])
    /\ calls[d].prev \in STATUSES \cup {"Rows"}

\* SELECT ... FOR UPDATE, UPDATE and DELETE lock the rows they find: another
\* session holds the lock of the ride's row
RowLockedByOther(c, ride_id) ==
  \E d \in Calls \ {c} :
    /\ calls[d].pc = "executed"
    /\ calls[d].op # "create"
    /\ ride_id \in Targets(calls[d])
    /\ calls[d].prev \in STATUSES \cup {"Rows"}

\* did the statement of this call update the ride
Updated(call) == UpdMatches(call.prev, AllowedFrom(call.role, call.to_status))

\* An answer that re-reads the ride when the statement returned no row and
\* hands the unchanged ride to the caller.
AnswerUnchangedRide(call, result) ==
  [call EXCEPT !.pc = "done",
               !.result = IF result = "None" /\ call.prev \in STATUSES
                            THEN "Ride" ELSE result,
               !.reason = NULL, !.now = NoTime, !.actor_id = 0,
               !.values = NoValues]

\* what is kept of a call that has returned: the request line and the answer
Answer(call, result) ==
  [call EXCEPT !.pc = "done", !.result = result, !.reason = NULL,
               !.now = NoTime, !.actor_id = 0, !.values = NoValues]

\* change_status up to session.execute: the checks, then the statement is sent
ChangeStatus(c, ride_id, to_status, role, reason, actor_id) ==
  /\ FirstFree(c)
  /\ ops < MaxOps
  /\ LET req == [IdleCall EXCEPT !.op = "change", !.ride_id = ride_id,
                    !.to_status = to_status, !.role = role, !.reason = reason,
                    !.actor_id = actor_id]
     IN calls' = [calls EXCEPT ![c] =
          IF ~IsStatus(to_status)
            THEN Answer(req, "ValueError")
          ELSE IF NoneAllowed(AllowedFrom(role, to_status))
            THEN Answer(req, "None")
          ELSE [req EXCEPT !.pc = "begun", !.now = clock, !.sql = 1]]
  /\ ops' = ops + 1
  /\ UNCHANGED <<rides, history, clock, wsvars, balvars>>

\* the statement runs: prev takes the row lock and reads the committed status
Exec(c) ==
  /\ calls[c].pc = "begun"
  /\ calls[c].op = "change"
  /\ ~RowLockedByOther(c, calls[c].ride_id)
  /\ LET prev == IF Exists(calls[c].ride_id)
                   THEN rides[calls[c].ride_id].status ELSE "NoRow"
         read == [calls[c] EXCEPT !.prev = prev]
     IN calls' = [calls EXCEPT ![c] =
          [read EXCEPT !.pc = "executed",
                       !.result = IF Updated(read) THEN "Ride" ELSE "None"]]
  /\ UNCHANGED <<rides, history, clock, ops, wsvars, balvars>>

\* A history that keeps one row per ride and overwrites it.
ReplaceLastEntry(log, entry) ==
  IF log = <<>> THEN <<entry>> ELSE [log EXCEPT ![Len(log)] = entry]

\* INSERT INTO ride_status_history / insert(RideStatusHistory): a new row
AddEntry(log, entry) == Append(log, entry)

\* A commit inside a retry loop: a statement that returned no row is sent
\* again.
CommitRetries(c) ==
  /\ calls[c].pc = "executed"
  /\ calls[c].op \in {"create", "change"}
  /\ LET call == calls[c]
         id == call.ride_id
     IN IF call.op = "create"
          THEN /\ rides' = Append(rides, NewRide(call.values))
               /\ history' = [history EXCEPT ![Len(rides) + 1] =
                                AddEntry(@, Genesis(call.values, call.now))]
               /\ calls' = [calls EXCEPT ![c] = Answer(@, @.result)]
          ELSE /\ rides' = IF Updated(call) /\ Exists(id)
                             THEN [rides EXCEPT ![id] =
                                     Upd(@, call.to_status, call.reason, call.now)]
                             ELSE rides
               /\ history' = IF InsCondition(Updated(call))
                               THEN [history EXCEPT ![id] = AddEntry(@, InsRow(call))]
                               ELSE history
               /\ calls' = [calls EXCEPT ![c] =
                    IF Updated(call) \/ call.prev = "NoRow"
                      THEN Answer(@, @.result)
                      ELSE [@ EXCEPT !.pc = "begun", !.prev = "NotRead",
                                     !.result = NULL]]
  /\ UNCHANGED <<clock, ops, wsvars, balvars>>

\* the session commits: its writes become visible and its locks are released
Commit(c) ==
  /\ calls[c].pc = "executed"
  /\ calls[c].op \in {"create", "change"}
  /\ LET call == calls[c]
         id == call.ride_id
     IN IF call.op = "create"
          THEN /\ rides' = Append(rides, NewRide(call.values))
               /\ history' = [history EXCEPT ![Len(rides) + 1] =
                                AddEntry(@, Genesis(call.values, call.now))]
          ELSE /\ rides' = IF Updated(call) /\ Exists(id)
                             THEN [rides EXCEPT ![id] =
                                     Upd(@, call.to_status, call.reason, call.now)]
                             ELSE rides
               /\ history' = IF InsCondition(Updated(call))
                               THEN [history EXCEPT ![id] = AddEntry(@, InsRow(call))]
                               ELSE history
  /\ calls' = [calls EXCEPT ![c] = Answer(@, @.result)]
  /\ UNCHANGED <<clock, ops, wsvars, balvars>>

\* A failure that is caught and reported like a statement without a row.
FailAsRejection(c) ==
  /\ calls[c].pc \in {"begun", "executed"}
  /\ calls' = [calls EXCEPT ![c] =
       [@ EXCEPT !.pc = "done", !.result = "None", !.reason = NULL,
                 !.now = NoTime, !.actor_id = 0, !.values = NoValues]]
  /\ UNCHANGED <<rides, history, clock, ops, wsvars, balvars>>

\* A failure that finds the inserted ride row committed already.
FailRideKept(c) ==
  /\ calls[c].pc \in {"begun", "executed"}
  /\ calls' = [calls EXCEPT ![c] = Answer(@, "Error")]
  /\ rides' = IF calls[c].op = "create"
               THEN Append(rides, NewRide(calls[c].values)) ELSE rides
  /\ UNCHANGED <<history, clock, ops, wsvars, balvars>>

\* the session fails (lock timeout, lost connection, failed insert or commit)
\* and rolls back
Fail(c) ==
  /\ calls[c].pc \in {"begun", "executed"}
  /\ calls' = [calls EXCEPT ![c] = Answer(@, "Error")]
  /\ UNCHANGED <<rides, history, clock, ops, wsvars, balvars>>

\* the caller has its answer; the slot serves the next request
Return(c) ==
  /\ calls[c].pc = "done"
  /\ calls' = [calls EXCEPT ![c] = IdleCall]
  /\ UNCHANGED <<rides, history, clock, ops, wsvars, balvars>>

Tick ==
  /\ clock < MaxClock
  /\ clock' = clock + 1
  /\ UNCHANGED <<rides, history, calls, ops, wsvars, balvars>>

\* ------------------------------------------------------------- update
\* An update that, like create, fills in the status when the input has none.
UpdateValuesDefaultStatus(r, update_data) ==
  [f \in DOMAIN r |->
     IF f \in DOMAIN update_data THEN update_data[f]
     ELSE IF f = "status" THEN "requested" ELSE r[f]]

\* .values(update_obj.model_dump(exclude_none=True)): the SET clause
UpdateValues(r, update_data) ==
  [f \in DOMAIN r |-> IF f \in DOMAIN update_data THEN update_data[f] ELSE r[f]]

\* RideCrud.update up to session.execute
Update(c, id, update_obj) ==
  /\ FirstFree(c)
  /\ ops < MaxOps
  /\ calls' = [calls EXCEPT ![c] =
       [IdleCall EXCEPT !.pc = "begun", !.op = "update", !.ride_id = id,
                        !.values = update_obj, !.sql = 1]]
  /\ ops' = ops + 1
  /\ UNCHANGED <<rides, history, clock, wsvars, balvars>>

\* UPDATE rides ... WHERE id = :id RETURNING: waits for the row lock, then
\* finds the committed row or none
ExecUpdate(c) ==
  /\ calls[c].pc = "begun"
  /\ calls[c].op = "update"
  /\ ~RowLockedByOther(c, calls[c].ride_id)
  /\ LET found == Exists(calls[c].ride_id)
     IN calls' = [calls EXCEPT ![c] =
          [@ EXCEPT !.pc = "executed",
                    !.prev = IF found THEN rides[calls[c].ride_id].status
                             ELSE "NoRow",
                    !.result = IF found THEN "Ride" ELSE "None"]]
  /\ UNCHANGED <<rides, history, clock, ops, wsvars, balvars>>

\* the session of an update commits
CommitUpdate(c) ==
  /\ calls[c].pc = "executed"
  /\ calls[c].op = "update"
  /\ rides' = IF calls[c].prev \in STATUSES
               THEN [rides EXCEPT ![calls[c].ride_id] =
                       UpdateValues(@, calls[c].values)]
               ELSE rides
  /\ calls' = [calls EXCEPT ![c] = Answer(@, @.result)]
  /\ UNCHANGED <<history, clock, ops, wsvars, balvars>>

\* ------------------------------------------------------------- read
\* CrudBase.get_by_id: one SELECT, answered from the committed rows
GetById(c, id) ==
  /\ FirstFree(c)
  /\ ops < MaxOps
  /\ calls' = [calls EXCEPT ![c] =
       Answer([IdleCall EXCEPT !.op = "get", !.ride_id = id, !.sql = 1,
                               !.prev = IF Exists(id) THEN rides[id].status
                                        ELSE "NoRow"],
              IF Exists(id) THEN "Ride" ELSE "None")]
  /\ ops' = ops + 1
  /\ UNCHANGED <<rides, history, clock, wsvars, balvars>>

\* ------------------------------------------------------------- delete
\* CrudBase.delete, inherited by RideCrud, up to session.execute
Delete(c, id) ==
  /\ FirstFree(c)
  /\ ops < MaxOps
  /\ calls' = [calls EXCEPT ![c] =
       [IdleCall EXCEPT !.pc = "begun", !.op = "delete", !.ride_id = id,
                        !.sql = 1]]
  /\ ops' = ops + 1
  /\ UNCHANGED <<rides, history, clock, wsvars, balvars>>

\* CrudBase.batch_delete, inherited by RideCrud, up to session.execute
BatchDelete(c, ids) ==
  /\ FirstFree(c)
  /\ ops < MaxOps
  /\ calls' = [calls EXCEPT ![c] =
       [IdleCall EXCEPT !.pc = "begun", !.op = "batch_delete",
                        !.values = [ids |-> ids], !.sql = 1]]
  /\ ops' = ops + 1
  /\ UNCHANGED <<rides, history, clock, wsvars, balvars>>

\* DELETE FROM rides WHERE id = :id / id IN (:ids) RETURNING: waits for the
\* row locks, then finds the committed rows and holds them
ExecDelete(c) ==
  /\ calls[c].pc = "begun"
  /\ calls[c].op \in {"delete", "batch_delete"}
  /\ \A id \in Targets(calls[c]) : ~RowLockedByOther(c, id)
  /\ LET found == {id \in Targets(calls[c]) : Exists(id)}
     IN calls' = [calls EXCEPT ![c] =
          IF calls[c].op = "delete"
            THEN [@ EXCEPT !.pc = "executed",
                           !.prev = IF found # {} THEN rides[calls[c].ride_id].status
                                    ELSE "NoRow",
                           !.result = IF found # {} THEN "Ride" ELSE "None"]
            ELSE [@ EXCEPT !.pc = "executed",
                           !.values = [ids |-> found],
                           !.prev = IF found # {} THEN "Rows" ELSE "NoRow",
                           !.result = "List"]]
  /\ UNCHANGED <<rides, history, clock, ops, wsvars, balvars>>

\* the rows a delete has found and will remove when its session commits
Deleted(call) ==
  IF call.prev \in STATUSES \cup {"Rows"} THEN Targets(call) ELSE {}

\* the session of a delete commits: the rows are removed; the entries of
\* ride_status_history that refer to them go with them when the reference
\* cascades and stay when the table has no reference (when the reference
\* restricts, the statement raises and the session fails: Fail)
CommitDelete(c) ==
  /\ calls[c].pc = "executed"
  /\ calls[c].op \in {"delete", "batch_delete"}
  /\ rides' = [id \in DOMAIN rides |->
                 IF id \in Deleted(calls[c]) THEN Gone ELSE rides[id]]
  /\ \E cascade \in BOOLEAN :
       history' = [id \in DOMAIN history |->
                     IF cascade /\ id \in Deleted(calls[c]) THEN <<>>
                     ELSE history[id]]
  /\ calls' = [calls EXCEPT ![c] = Answer(@, @.result)]
  /\ UNCHANGED <<clock, ops, wsvars, balvars>>

\* ------------------------------------------------- the connection manager
\* The websockets that may connect, and the user each connects as; the ride
\* rooms; the slots for calls of send_personal_message.
MaxSockets == 3
MaxSends == 2
Sockets == 1..MaxSockets
Senders == 1..MaxSends
WsUsers == {1, 2}
Rooms == {1}

\* the user_id in the path of the websocket's request
SocketUser(ws) == IF ws <= 2 THEN 1 ELSE 2

\* ConnectionManager.__init__
ManagerInit ==
  /\ active_connections = [u \in {} |-> <<>>]
  /\ ride_participants = [r \in {} |-> {}]

IdleSocket == [pc |-> "new", alive |-> TRUE]

IdleSend ==
  [pc |-> "idle", user_id |-> 0, cur |-> 0, nxt |-> 0, detached |-> FALSE,
   disconnected |-> <<>>, attempted |-> {}, listed |-> {}, result |-> NULL]

IdleBroadcast ==
  [pc |-> "idle", size |-> 0, left |-> {}, user_id |-> 0, cur |-> 0, nxt |-> 0,
   detached |-> FALSE, result |-> NULL]

\* no websocket has connected and no call is running
WsIdle ==
  /\ ManagerInit
  /\ sockets = [ws \in Sockets |-> IdleSocket]
  /\ sends = [t \in Senders |-> IdleSend]
  /\ bcast = IdleBroadcast

\* websocket in list
InList(ws, list) == \E i \in 1..Len(list) : list[i] = ws

\* list.remove(ws): the first occurrence is taken out
ListRemove(list, ws) ==
  LET i == CHOOSE k \in 1..Len(list) :
             list[k] = ws /\ \A j \in 1..(k - 1) : list[j] # ws
  IN SubSeq(list, 1, i - 1) \o SubSeq(list, i + 1, Len(list))

\* del d[key]
DelKey(d, key) == [k \in DOMAIN d \ {key} |-> d[k]]

\* ConnectionManager.connect, after websocket.accept()
connect(conns, websocket, user_id) ==
  IF user_id \in DOMAIN conns
    THEN [conns EXCEPT ![user_id] = Append(@, websocket)]
    ELSE conns @@ (user_id :> <<websocket>>)

\* A disconnect that only forgets a user's last connection.
disconnect_last_only(conns, websocket, user_id) ==
  IF user_id \in DOMAIN conns /\ conns[user_id] = <<websocket>>
    THEN DelKey(conns, user_id)
    ELSE conns

\* ConnectionManager.disconnect
disconnect(conns, websocket, user_id) ==
  IF user_id \notin DOMAIN conns THEN conns
  ELSE LET list == IF InList(websocket, conns[user_id])
                     THEN ListRemove(conns[user_id], websocket)
                     ELSE conns[user_id]
       IN IF list = <<>> THEN DelKey(conns, user_id)
          ELSE [conns EXCEPT ![user_id] = list]

\* ConnectionManager.is_connected
is_connected(user_id) ==
  user_id \in DOMAIN active_connections /\ Len(active_connections[user_id]) > 0

\* ConnectionManager.get_online_users
get_online_users == DOMAIN active_connections

RECURSIVE SumLen(_, _)
SumLen(conns, keys) ==
  IF keys = {} THEN 0
  ELSE LET k == CHOOSE k \in keys : TRUE
       IN Len(conns[k]) + SumLen(conns, keys \ {k})

\* ConnectionManager.get_connection_count
get_connection_count == SumLen(active_connections, DOMAIN active_connections)

\* ConnectionManager.join_ride
join_ride(rooms, ride_id, user_id) ==
  IF ride_id \in DOMAIN rooms
    THEN [rooms EXCEPT ![ride_id] = @ \cup {user_id}]
    ELSE rooms @@ (ride_id :> {user_id})

\* ConnectionManager.leave_ride
leave_ride(rooms, ride_id, user_id) ==
  IF ride_id \notin DOMAIN rooms THEN rooms
  ELSE IF rooms[ride_id] \ {user_id} = {} THEN DelKey(rooms, ride_id)
  ELSE [rooms EXCEPT ![ride_id] = @ \ {user_id}]

\* the iterators that hold the list object of a user whose key this step
\* deletes: the object is no longer the one in the dict, and stays empty
Detach(task, before, after) ==
  IF task.pc = "sending" /\ task.user_id \in DOMAIN before \ DOMAIN after
    THEN [task EXCEPT !.detached = TRUE] ELSE task

\* websocket_endpoint: manager.connect (accept, then the registration); of the
\* websockets of one user, which differ in nothing else, the lower connects
\* first
EndpointConnect(ws) ==
  /\ sockets[ws].pc = "new"
  /\ \A v \in Sockets :
       (v < ws /\ SocketUser(v) = SocketUser(ws)) => sockets[v].pc # "new"
  /\ active_connections' = connect(active_connections, ws, SocketUser(ws))
  /\ sockets' = [sockets EXCEPT ![ws].pc = "open"]
  /\ UNCHANGED <<ride_participants, sends, bcast, ridevars, balvars>>

\* the client of an open websocket goes away
ClientClose(ws) ==
  /\ sockets[ws].pc = "open"
  /\ sockets[ws].alive
  /\ sockets' = [sockets EXCEPT ![ws].alive = FALSE]
  /\ UNCHANGED <<active_connections, ride_participants, sends, bcast, ridevars, balvars>>

\* websocket_endpoint, the two except clauses: the receive loop ends with
\* WebSocketDisconnect when the client is gone, or with an exception of the
\* message handling at any time; the handler calls manager.disconnect
EndpointDisconnect(ws) ==
  /\ sockets[ws].pc = "open"
  /\ active_connections' = disconnect(active_connections, ws, SocketUser(ws))
  /\ sockets' = [sockets EXCEPT ![ws] = [pc |-> "ended", alive |-> FALSE]]
  /\ sends' = [t \in Senders |->
                 Detach(sends[t], active_connections, active_connections')]
  /\ bcast' = Detach(bcast, active_connections, active_connections')
  /\ UNCHANGED <<ride_participants, ridevars, balvars>>

\* handle_message, type join_ride
HandleJoinRide(ws, ride_id) ==
  /\ sockets[ws].pc = "open"
  /\ sockets[ws].alive
  /\ ride_participants' = join_ride(ride_participants, ride_id, SocketUser(ws))
  /\ UNCHANGED <<active_connections, sockets, sends, bcast, ridevars, balvars>>

\* handle_message, type leave_ride
HandleLeaveRide(ws, ride_id) ==
  /\ sockets[ws].pc = "open"
  /\ sockets[ws].alive
  /\ ride_participants' = leave_ride(ride_participants, ride_id, SocketUser(ws))
  /\ UNCHANGED <<active_connections, sockets, sends, bcast, ridevars, balvars>>

\* send_personal_message, the cleanup loop: every remove looks the user up in
\* the dict again; a missing key or a missing element ends the call with the
\* exception, after the removals made so far
RECURSIVE Cleanup(_, _, _)
Cleanup(conns, user_id, disconnected) ==
  IF disconnected = <<>> THEN [conns |-> conns, result |-> "True"]
  ELSE IF user_id \notin DOMAIN conns
    THEN [conns |-> conns, result |-> "KeyError"]
  ELSE IF ~InList(Head(disconnected), conns[user_id])
    THEN [conns |-> conns, result |-> "ValueError"]
  ELSE Cleanup([conns EXCEPT ![user_id] = ListRemove(@, Head(disconnected))],
               user_id, Tail(disconnected))

\* what is kept of a call of the manager that has ended: the user and the
\* result, or the exception it raised
SendAnswer(user_id, result) ==
  [IdleSend EXCEPT !.pc = "done", !.user_id = user_id, !.result = result]

\* send_personal_message up to the first await: the lookup of the user, and
\* the first send_json on the list in the dict
SendPersonalMessage(t, user_id) ==
  /\ sends[t].pc = "idle"
  /\ \A d \in Senders : d < t => sends[d].pc # "idle"
  /\ sends' = [sends EXCEPT ![t] =
       IF user_id \notin DOMAIN active_connections
         THEN SendAnswer(user_id, "False")
       ELSE IF active_connections[user_id] = <<>>
         THEN SendAnswer(user_id, "True")
       ELSE LET list == active_connections[user_id]
            IN [IdleSend EXCEPT !.pc = "sending", !.user_id = user_id,
                                !.cur = list[1], !.nxt = 2,
                                !.attempted = {list[1]},
                                !.listed = {list[i] : i \in 1..Len(list)}]]
  /\ UNCHANGED <<active_connections, ride_participants, sockets, bcast, ridevars, balvars>>

\* send_personal_message resumes from send_json: the send has failed if the
\* websocket is closed; the for loop takes the next element of the list as it
\* is now, by index, and sends; after the last element the cleanup runs and
\* the call returns
SendResume(t) ==
  /\ sends[t].pc = "sending"
  /\ LET task == sends[t]
         disconnected == IF sockets[task.cur].alive
                           THEN task.disconnected
                           ELSE Append(task.disconnected, task.cur)
         list == IF task.detached THEN <<>>
                 ELSE active_connections[task.user_id]
         cleaned == Cleanup(active_connections, task.user_id, disconnected)
     IN IF task.nxt <= Len(list)
          THEN /\ sends' = [sends EXCEPT ![t] =
                    [task EXCEPT !.cur = list[task.nxt], !.nxt = task.nxt + 1,
                                 !.disconnected = disconnected,
                                 !.attempted = @ \cup {list[task.nxt]}]]
               /\ UNCHANGED active_connections
          ELSE /\ sends' = [sends EXCEPT ![t] =
                    SendAnswer(task.user_id, cleaned.result)]
               /\ active_connections' = cleaned.conns
  /\ UNCHANGED <<ride_participants, sockets, bcast, ridevars, balvars>>

\* the caller has the result of send_personal_message
SendReturn(t) ==
  /\ sends[t].pc = "done"
  /\ sends' = [sends EXCEPT ![t] = IdleSend]
  /\ UNCHANGED <<active_connections, ride_participants, sockets, bcast, ridevars, balvars>>

\* the users of the dict that broadcast may take next: those with a
\* connection; one with an empty list is passed without an await
Audience(keys) ==
  {u \in keys \cap DOMAIN active_connections : active_connections[u] # <<>>}

\* broadcast turns to the first connection of the next user of the dict
BroadcastTo(u, size, left) ==
  [IdleBroadcast EXCEPT !.pc = "sending", !.size = size, !.left = left \ {u},
                        !.user_id = u, !.cur = active_connections[u][1],
                        !.nxt = 2]

BroadcastAnswer(result) == [IdleBroadcast EXCEPT !.pc = "done", !.result = result]

\* broadcast up to the first await; it is called without exclude_user_id
Broadcast ==
  /\ bcast.pc = "idle"
  /\ IF Audience(DOMAIN active_connections) = {}
       THEN bcast' = BroadcastAnswer("None")
       ELSE \E u \in Audience(DOMAIN active_connections) :
              bcast' = BroadcastTo(u, Cardinality(DOMAIN active_connections),
                                   DOMAIN active_connections)
  /\ UNCHANGED <<active_connections, ride_participants, sockets, sends, ridevars, balvars>>

\* broadcast resumes from send_json (a failed send is logged): the next
\* connection of the user's list as it is now; after the last, the next user
\* of the dict, which raises RuntimeError when the dict has changed its size
BroadcastResume ==
  /\ bcast.pc = "sending"
  /\ LET list == IF bcast.detached THEN <<>>
                 ELSE active_connections[bcast.user_id]
     IN IF bcast.nxt <= Len(list)
          THEN bcast' = [bcast EXCEPT !.cur = list[bcast.nxt], !.nxt = @ + 1]
        ELSE IF Cardinality(DOMAIN active_connections) # bcast.size
          THEN bcast' = BroadcastAnswer("RuntimeError")
        ELSE IF Audience(bcast.left) = {}
          THEN bcast' = BroadcastAnswer("None")
        ELSE \E u \in Audience(bcast.left) :
               bcast' = BroadcastTo(u, bcast.size, bcast.left)
  /\ UNCHANGED <<active_connections, ride_participants, sockets, sends, ridevars, balvars>>

\* the caller has the result of broadcast
BroadcastReturn ==
  /\ bcast.pc = "done"
  /\ bcast' = IdleBroadcast
  /\ UNCHANGED <<active_connections, ride_participants, sockets, sends, ridevars, balvars>>

\* ------------------------------------------------- update_user_balance
\* One user, created with the default balance before the clock's first
\* reading; the transactions that may be inserted; the sessions that call the
\* function.
MaxTx == 2
MaxBal == 2
MaxTime == 5
BalCalls == 1..MaxBal
InitialBalance == 400
UserCreatedAt == 0
InAmounts == {10}
InUserIds == {1, 2}

IdleBal ==
  [pc |-> "idle", p_user_id |-> 0, now |-> NoTime, v_old_balance |-> NULL,
   v_balance_increase |-> 0, rows |-> {}, result |-> NULL]

\* the users table holds user 1, and no transaction and no call is there
BalIdle ==
  /\ users = (1 :> [balance |-> InitialBalance,
                    balance_updated_at |-> UserCreatedAt])
  /\ transactions = {}
  /\ bal = [c \in BalCalls |-> IdleBal]

\* CASE WHEN is_withdraw THEN -amount ELSE amount END
Signed(tx) == IF tx.is_withdraw THEN 0 - tx.amount ELSE tx.amount

\* COALESCE(SUM(...), 0)
RECURSIVE SumSigned(_)
SumSigned(txs) ==
  IF txs = {} THEN 0
  ELSE LET tx == CHOOSE tx \in txs : TRUE
       IN Signed(tx) + SumSigned(txs \ {tx})

\* the rows of transactions that the SUM reads
NewTransactions(p_user_id) ==
  {tx \in transactions :
     /\ tx.user_id = p_user_id
     /\ tx.created_at > users[p_user_id].balance_updated_at}

\* a transaction of the user is inserted and committed; its created_at is
\* the time of the insert, and no two readings of the clock are equal
InsertTransaction(user_id, amount, is_withdraw) ==
  /\ Cardinality(transactions) < MaxTx
  /\ clock < MaxTime
  /\ transactions' = transactions \cup
       {[id |-> Cardinality(transactions) + 1, user_id |-> user_id,
         amount |-> amount, is_withdraw |-> is_withdraw, created_at |-> clock]}
  /\ clock' = clock + 1
  /\ UNCHANGED <<users, bal, rides, history, calls, ops, wsvars>>

\* UserRouter.update_user_balance: the session's transaction begins, and
\* NOW() is its start time from here on
UpdateUserBalance(c, p_user_id) ==
  /\ bal[c].pc = "idle"
  /\ \A d \in BalCalls : d < c => bal[d].pc # "idle"
  /\ clock < MaxTime
  /\ bal' = [bal EXCEPT ![c] =
       [IdleBal EXCEPT !.pc = "begun", !.p_user_id = p_user_id, !.now = clock]]
  /\ clock' = clock + 1
  /\ UNCHANGED <<users, transactions, rides, history, calls, ops, wsvars>>

\* SELECT balance INTO v_old_balance, and the RAISE when there is no user
SelectBalance(c) ==
  /\ bal[c].pc = "begun"
  /\ bal' = [bal EXCEPT ![c] =
       IF bal[c].p_user_id \in DOMAIN users
         THEN [@ EXCEPT !.pc = "read",
                        !.v_old_balance = users[bal[c].p_user_id].balance]
         ELSE [IdleBal EXCEPT !.pc = "done", !.p_user_id = bal[c].p_user_id,
                              !.result = "Error"]]
  /\ UNCHANGED <<users, transactions, ridevars, wsvars>>

\* SELECT COALESCE(SUM(...), 0) INTO v_balance_increase, over the rows that
\* are committed when this statement runs
SelectIncrease(c) ==
  /\ bal[c].pc = "read"
  /\ bal' = [bal EXCEPT ![c] =
       [@ EXCEPT !.pc = "summed",
                 !.rows = NewTransactions(bal[c].p_user_id),
                 !.v_balance_increase =
                    SumSigned(NewTransactions(bal[c].p_user_id))]]
  /\ UNCHANGED <<users, transactions, ridevars, wsvars>>

\* another session has updated the user's row and not committed
UserLockedByOther(c, p_user_id) ==
  \E d \in BalCalls \ {c} :
    bal[d].pc = "updated" /\ bal[d].p_user_id = p_user_id

\* UPDATE users SET balance = v_new_balance, balance_updated_at = NOW(): it
\* waits for the row lock and then writes what the function has computed
UpdateUser(c) ==
  /\ bal[c].pc = "summed"
  /\ ~UserLockedByOther(c, bal[c].p_user_id)
  /\ bal' = [bal EXCEPT ![c].pc = "updated"]
  /\ UNCHANGED <<users, transactions, ridevars, wsvars>>

\* the function returns its JSON and the session commits
CommitBalance(c) ==
  /\ bal[c].pc = "updated"
  /\ users' = [users EXCEPT ![bal[c].p_user_id] =
       [balance |-> bal[c].v_old_balance + bal[c].v_balance_increase,
        balance_updated_at |-> bal[c].now]]
  /\ bal' = [bal EXCEPT ![c] = [@ EXCEPT !.pc = "done", !.result = "Json"]]
  /\ UNCHANGED <<transactions, ridevars, wsvars>>

\* the caller has its answer
BalanceReturn(c) ==
  /\ bal[c].pc = "done"
  /\ bal' = [bal EXCEPT ![c] = IdleBal]
  /\ UNCHANGED <<users, transactions, ridevars, wsvars>>

\* no ride is there and no request on rides arrives
RidesIdle ==
  /\ rides = <<>>
  /\ history = [id \in RideIds |-> <<>>]
  /\ calls = [c \in Calls |-> IdleCall]
  /\ clock = 1
  /\ ops = 0

InitBalance == RidesIdle /\ WsIdle /\ BalIdle

NextBalance ==
  \/ \E amount \in InAmounts, is_withdraw \in BOOLEAN :
       InsertTransaction(1, amount, is_withdraw)
  \/ \E c \in BalCalls, p_user_id \in InUserIds : UpdateUserBalance(c, p_user_id)
  \/ \E c \in BalCalls : SelectBalance(c)
  \/ \E c \in BalCalls : SelectIncrease(c)
  \/ \E c \in BalCalls : UpdateUser(c)
  \/ \E c \in BalCalls : CommitBalance(c)
  \/ \E c \in BalCalls : BalanceReturn(c)

SpecBalance == InitBalance /\ [][NextBalance]_vars

\* ------------------------------------------- the manager's specifications
InitWs == RidesIdle /\ WsIdle /\ BalIdle

NextWs ==
  \/ \E ws \in Sockets : EndpointConnect(ws)
  \/ \E ws \in Sockets : ClientClose(ws)
  \/ \E ws \in Sockets : EndpointDisconnect(ws)
  \/ \E ws \in Sockets, ride_id \in Rooms : HandleJoinRide(ws, ride_id)
  \/ \E ws \in Sockets, ride_id \in Rooms : HandleLeaveRide(ws, ride_id)
  \/ \E t \in Senders, user_id \in WsUsers : SendPersonalMessage(t, user_id)
  \/ \E t \in Senders : SendResume(t)
  \/ \E t \in Senders : SendReturn(t)
  \/ Broadcast
  \/ BroadcastResume
  \/ BroadcastReturn

SpecWs == InitWs /\ [][NextWs]_vars

\* the event loop resumes the endpoint of a websocket whose client is gone
EndpointResume(ws) == ~sockets[ws].alive /\ EndpointDisconnect(ws)

\* the endpoints, and the calls of send_personal_message that run beside them
NextEndpoint ==
  \/ \E ws \in Sockets : EndpointConnect(ws)
  \/ \E ws \in Sockets : ClientClose(ws)
  \/ \E ws \in Sockets : EndpointDisconnect(ws)
  \/ \E ws \in Sockets, ride_id \in Rooms : HandleJoinRide(ws, ride_id)
  \/ \E ws \in Sockets, ride_id \in Rooms : HandleLeaveRide(ws, ride_id)
  \/ \E t \in Senders, user_id \in WsUsers : SendPersonalMessage(t, user_id)
  \/ \E t \in Senders : SendResume(t)
  \/ \E t \in Senders : SendReturn(t)

\* The endpoints under fair scheduling: the endpoint coroutine of a websocket
\* whose client is gone is resumed at some time.
SpecWsFair ==
  /\ InitWs
  /\ [][NextEndpoint]_vars
  /\ \A ws \in Sockets : WF_vars(EndpointResume(ws))

\* ---------------------------------------------------------- initial states
\* The store starts empty, or holds one ride that earlier requests have taken
\* along the lifecycle: created by client 1 at time 1 and then either moved by
\* the system role, one committed call after the other, through the first k
\* statuses of Path, or canceled by the client.
Path == <<"driver_assigned", "accepted", "arrived", "started", "completed">>

EarlierCall(role, prev, to_status, reason) ==
  [IdleCall EXCEPT !.op = "change", !.ride_id = 1, !.to_status = to_status,
                   !.role = role, !.reason = reason, !.actor_id = 2,
                   !.now = 1, !.prev = prev]

RECURSIVE RideAfter(_)
RideAfter(k) ==
  IF k = 0 THEN NewRide([client_id |-> 1, dropoff_address |-> "a1"])
  ELSE Upd(RideAfter(k - 1), Path[k], NULL, 1)

RECURSIVE HistoryAfter(_)
HistoryAfter(k) ==
  IF k = 0 THEN <<Genesis([client_id |-> 1], 1)>>
  ELSE Append(HistoryAfter(k - 1),
              InsRow(EarlierCall("system", RideAfter(k - 1).status, Path[k], NULL)))

StartStores ==
  {<<RideAfter(k), HistoryAfter(k)>> : k \in 0..Len(Path)}
  \cup {<<Upd(RideAfter(0), "canceled", "r1", 1),
          Append(HistoryAfter(0),
                 InsRow(EarlierCall("client", RideAfter(0).status, "canceled", "r1")))>>}

Init ==
  /\ \/ /\ rides = <<>>
        /\ history = [id \in RideIds |-> <<>>]
     \/ \E st \in StartStores :
          /\ rides = <<st[1]>>
          /\ history = [id \in RideIds |-> IF id = 1 THEN st[2] ELSE <<>>]
  /\ calls = [c \in Calls |-> IdleCall]
  /\ clock = 1
  /\ ops = 0
  /\ WsIdle /\ BalIdle

Next ==
  \/ Tick
  \/ \E c \in Calls, values \in RideCreateInputs : Create(c, values)
  \/ \E c \in Calls : CreateHistory(c)
  \/ \E c \in Calls, ride_id \in RideIds, to_status \in InStatuses,
        role \in InRoles, reason \in InReasons, actor_id \in InActorIds :
       ChangeStatus(c, ride_id, to_status, role, reason, actor_id)
  \/ \E c \in Calls : Exec(c)
  \/ \E c \in Calls : Commit(c)
  \/ \E c \in Calls : Fail(c)
  \/ \E c \in Calls : Return(c)

Spec == Init /\ [][Next]_vars

\* create and change_status together with direct updates of a ride's fields
NextUpdate ==
  \/ Next
  \/ \E c \in Calls, id \in RideIds, update_obj \in RideUpdateInputs :
       Update(c, id, update_obj)
  \/ \E c \in Calls : ExecUpdate(c)
  \/ \E c \in Calls : CommitUpdate(c)

SpecUpdate == Init /\ [][NextUpdate]_vars

\* every operation the ride CRUD object offers for writing
NextCrud ==
  \/ NextUpdate
  \/ \E c \in Calls, id \in RideIds : Delete(c, id)
  \/ \E c \in Calls, ids \in SUBSET RideIds : BatchDelete(c, ids)
  \/ \E c \in Calls : ExecDelete(c)
  \/ \E c \in Calls : CommitDelete(c)

SpecCrud == Init /\ [][NextCrud]_vars

\* ------------------------------------------------------------ the race
\* A freshly created ride and concurrent change_status calls on it, each with
\* a different target that its role may reach from requested; every call has
\* sent its statement before any of them runs, and no other request arrives.
RaceRequests ==
  {q \in [role : {"client", "driver", "system"}, to_status : STATUSES,
          reason : InReasons] :
     "requested" \in AllowedFrom(q.role, q.to_status)}

RaceCall(q) ==
  [IdleCall EXCEPT !.pc = "begun", !.op = "change", !.ride_id = 1,
                   !.to_status = q.to_status, !.role = q.role,
                   !.reason = q.reason, !.actor_id = 2, !.now = 1, !.sql = 1]

InitRace ==
  /\ rides = <<RideAfter(0)>>
  /\ history = [id \in RideIds |-> IF id = 1 THEN HistoryAfter(0) ELSE <<>>]
  /\ \E racers \in SUBSET Calls :
       /\ Cardinality(racers) >= 2
       /\ \E q \in [racers -> RaceRequests] :
            /\ \A c, d \in racers : c # d => q[c].to_status # q[d].to_status
            /\ calls = [c \in Calls |->
                          IF c \in racers THEN RaceCall(q[c]) ELSE IdleCall]
  /\ clock = 1
  /\ ops = MaxOps
  /\ WsIdle /\ BalIdle

NextRace ==
  \/ Tick
  \/ \E c \in Calls : Exec(c)
  \/ \E c \in Calls : Commit(c)
  \/ \E c \in Calls : Fail(c)

SpecRace == InitRace /\ [][NextRace]_vars

\* a session that holds the row lock rolls back
Rollback(c) == calls[c].pc = "executed" /\ Fail(c)

\* The race under fair scheduling: a statement that can take the row lock again
\* and again is run at some time (the lock is granted to the waiting sessions
\* in turn), and a transaction that holds the row lock commits or rolls back.
\* A wait for the lock may still end in a timeout, and need not.
SpecRaceFair ==
  /\ InitRace
  /\ [][NextRace]_vars
  /\ \A c \in Calls : SF_vars(Exec(c))
  /\ \A c \in Calls : WF_vars(Commit(c) \/ Rollback(c))

\* ------------------------------------------------------------ two rides
\* Two rides, each at the start, in the middle or near the end of its
\* lifecycle, and calls of change_status on either of them.
PairIds == 1..(MaxRides + 1)

PairStores == {<<RideAfter(k), HistoryAfter(k)>> : k \in {0, 2, 4}}

InitPair ==
  /\ \E st \in [PairIds -> PairStores] :
       /\ rides = [id \in PairIds |-> st[id][1]]
       /\ history = [id \in PairIds |-> st[id][2]]
  /\ calls = [c \in Calls |-> IdleCall]
  /\ clock = 1
  /\ ops = 0
  /\ WsIdle /\ BalIdle

NextPair ==
  \/ \E c \in Calls, ride_id \in PairIds, to_status \in InStatuses,
        role \in InRoles, reason \in InReasons, actor_id \in InActorIds :
       ChangeStatus(c, ride_id, to_status, role, reason, actor_id)
  \/ \E c \in Calls : Exec(c)
  \/ \E c \in Calls : Commit(c)
  \/ \E c \in Calls : Fail(c)
  \/ \E c \in Calls : Return(c)

SpecPair == InitPair /\ [][NextPair]_vars

\* ------------------------------------------------------ the generic store
\* The table behind a CrudBase object, here with two rows, and the reads and
\* deletes of CrudBase on ids that are present and on one that is not.
StoreIds == 1..(MaxRides + 2)

NextStore ==
  \/ \E c \in Calls, id \in StoreIds : GetById(c, id)
  \/ \E c \in Calls, id \in StoreIds : Delete(c, id)
  \/ \E c \in Calls : ExecDelete(c)
  \/ \E c \in Calls : CommitDelete(c)
  \/ \E c \in Calls : Fail(c)
  \/ \E c \in Calls : Return(c)

SpecStore == InitPair /\ [][NextStore]_vars

\* ------------------------------------------------------------ the claims
Terminal == {"completed", "canceled"}

\* The role-keyed transition table as the specification prints it:
\* <<role, current status, target>>.
SpecTransitions ==
  {<<"client", "requested", "canceled">>,
   <<"client", "driver_assigned", "canceled">>,
   <<"client", "accepted", "canceled">>,
   <<"driver", "driver_assigned", "accepted">>,
   <<"driver", "driver_assigned", "canceled">>,
   <<"driver", "accepted", "arrived">>,
   <<"driver", "accepted", "canceled">>,
   <<"driver", "arrived", "started">>,
   <<"driver", "arrived", "canceled">>,
   <<"driver", "started", "completed">>,
   <<"driver", "started", "canceled">>,
   <<"system", "requested", "driver_assigned">>,
   <<"system", "requested", "canceled">>,
   <<"system", "driver_assigned", "accepted">>,
   <<"system", "driver_assigned", "canceled">>,
   <<"system", "accepted", "arrived">>,
   <<"system", "accepted", "canceled">>,
   <<"system", "arrived", "started">>,
   <<"system", "arrived", "canceled">>,
   <<"system", "started", "completed">>,
   <<"system", "started", "canceled">>}

Last(seq) == seq[Len(seq)]

\* the calls of change_status that have got past the statement, or returned
Answered(c) == calls[c].op = "change" /\ calls[c].pc \in {"executed", "done"}

\* C1: in every reachable state each ride's status is the to_status of the
\* entry most recently appended to its history.
C1_StatusIsLastHistory ==
  \A id \in DOMAIN rides :
    /\ history[id] # <<>>
    /\ rides[id].status = Last(history[id]).to_status

\* C1 witness: a call has moved a ride and another call on it was turned down.
C1_Witness ==
  \E c, d \in Calls :
    /\ calls[c].pc = "done" /\ calls[c].op = "change" /\ calls[c].result = "Ride"
    /\ calls[d].pc = "done" /\ calls[d].op = "change" /\ calls[d].result = "None"
    /\ calls[d].prev \in STATUSES
    /\ calls[c].ride_id = calls[d].ride_id
    /\ Len(history[calls[c].ride_id]) >= 2

\* ---- C2, under SpecRace
Racers == {c \in Calls : calls[c].op = "change"}
RaceOver == \A c \in Racers : calls[c].pc = "done"
NoFailure == \A c \in Racers : calls[c].result # "Error"
Winners == {c \in Racers : calls[c].result = "Ride"}

\* C2 as stated: when the race is over (no session failed), exactly one call
\* has succeeded, the others were turned down, the ride has the winner's
\* target and its history holds the genesis entry and one more.
C2_ExactlyOneWinner ==
  (RaceOver /\ NoFailure) =>
    /\ Cardinality(Winners) = 1
    /\ \A c \in Racers \ Winners : calls[c].result = "None"
    /\ \A c \in Winners : rides[1].status = calls[c].to_status
    /\ Len(history[1]) = 2

\* C2 amended: the call that takes the row lock first always succeeds; a
\* later call succeeds exactly when the status it then reads is one its role
\* may leave for its target, so a cancel still succeeds after driver_assigned
\* has won. One history entry is added per success, the final status is the
\* target of the last success, and when canceled wins first it wins alone.
C2_OneWinnerPerStatusRead ==
  (RaceOver /\ NoFailure) =>
    /\ Cardinality(Winners) >= 1
    /\ \A c \in Racers :
         /\ calls[c].result \in {"Ride", "None"}
         /\ calls[c].prev \in STATUSES
         /\ calls[c].result = "Ride"
              <=> <<calls[c].role, calls[c].prev, calls[c].to_status>>
                     \in SpecTransitions
    /\ \A c, d \in Winners : c # d => calls[c].prev # calls[d].prev
    /\ Len(history[1]) = 1 + Cardinality(Winners)
    /\ rides[1].status = Last(history[1]).to_status
    /\ \E c \in Winners : calls[c].to_status = rides[1].status
    /\ history[1][2].to_status = "canceled" => Cardinality(Winners) = 1

\* C2 witness: the race is over and a call that lost it was turned down.
C2_Witness ==
  /\ RaceOver /\ NoFailure
  /\ Cardinality(Winners) = 1
  /\ \E c \in Racers : calls[c].result = "None" /\ calls[c].prev = "canceled"

\* C3: transitions of a ride are linearized: at most one session at a time
\* holds a ride's row after reading its status, and in commit order every
\* entry's from_status is the to_status of the entry before it.
C3_Linearized ==
  /\ \A c, d \in Calls :
       (/\ c # d
        /\ calls[c].pc = "executed" /\ calls[c].op = "change"
        /\ calls[d].pc = "executed" /\ calls[d].op = "change"
        /\ calls[c].ride_id = calls[d].ride_id)
       => ~(calls[c].prev \in STATUSES /\ calls[d].prev \in STATUSES)
  /\ \A id \in DOMAIN rides :
       \A i \in 2..Len(history[id]) :
         history[id][i].from_status = history[id][i - 1].to_status

\* C3 witness: a call has updated a ride and holds its row while another
\* call on the same ride waits for the lock.
C3_Witness ==
  \E c, d \in Calls :
    /\ calls[c].pc = "executed" /\ calls[c].op = "change"
    /\ calls[c].result = "Ride"
    /\ calls[d].pc = "begun" /\ calls[d].ride_id = calls[c].ride_id
    /\ rides[calls[c].ride_id].status \in
         AllowedFrom(calls[d].role, calls[d].to_status)

\* C4: in every step, a ride's row changes exactly when one entry is appended
\* to its history, and that entry leads from the old status to the new one;
\* a session that fails changes neither, and a statement that updates no row
\* appends nothing.
C4_Inseparable ==
  [][\A id \in DOMAIN rides :
       /\ (rides'[id] # rides[id]) <=> (history'[id] # history[id])
       /\ history'[id] # history[id] =>
            /\ Len(history'[id]) = Len(history[id]) + 1
            /\ SubSeq(history'[id], 1, Len(history[id])) = history[id]
            /\ Last(history'[id]).from_status = rides[id].status
            /\ Last(history'[id]).to_status = rides'[id].status
            /\ rides'[id].status # rides[id].status]_vars

\* C4 witness: a session failed after its statement had updated the ride,
\* and the ride and its history are as before.
C4_Witness ==
  \E c \in Calls :
    /\ calls[c].pc = "done" /\ calls[c].op = "change"
    /\ calls[c].result = "Error"
    /\ calls[c].prev \in AllowedFrom(calls[c].role, calls[c].to_status)
    /\ Exists(calls[c].ride_id)
    /\ rides[calls[c].ride_id].status = calls[c].prev
    /\ Last(history[calls[c].ride_id]).to_status = calls[c].prev

\* C5: a call by a role with a target of the status set succeeds exactly when
\* the specification's table lists the target for the role and the status the
\* call found; a role or a target the table never lists is turned down.
C5_PolicyDecides ==
  \A c \in Calls :
    (Answered(c) /\ calls[c].to_status \in STATUSES
       /\ calls[c].result \in {"Ride", "None"}) =>
      /\ calls[c].prev \in STATUSES =>
           (calls[c].result = "Ride"
              <=> <<calls[c].role, calls[c].prev, calls[c].to_status>>
                     \in SpecTransitions)
      /\ calls[c].prev \notin STATUSES => calls[c].result = "None"
      /\ calls[c].prev = "NotRead" =>
           \A s \in STATUSES :
             <<calls[c].role, s, calls[c].to_status>> \notin SpecTransitions
      /\ calls[c].prev # "NotRead" =>
           \E s \in STATUSES :
             <<calls[c].role, s, calls[c].to_status>> \in SpecTransitions

\* C5 witness: one call was granted and another, on a ride it found, was not.
C5_Witness ==
  \E c, d \in Calls :
    /\ calls[c].pc = "done" /\ calls[c].op = "change" /\ calls[c].result = "Ride"
    /\ calls[c].role = "driver" /\ calls[c].prev = "arrived"
    /\ calls[d].pc = "done" /\ calls[d].op = "change" /\ calls[d].result = "None"
    /\ calls[d].role = "client" /\ calls[d].prev = "started"

\* C6: once a ride is completed or canceled, no step changes its row or its
\* history.
C6_TerminalAbsorbing ==
  [][\A id \in DOMAIN rides :
       rides[id].status \in Terminal =>
         /\ rides'[id] = rides[id]
         /\ history'[id] = history[id]]_vars

\* C6 witness: a call whose role may reach its target has run against a
\* completed or canceled ride and was turned down.
C6_Witness ==
  \E c \in Calls :
    /\ calls[c].pc = "done" /\ calls[c].op = "change"
    /\ calls[c].prev \in Terminal
    /\ calls[c].result = "None"
    /\ rides[calls[c].ride_id].status = calls[c].prev

StampOf == [started |-> "started_at", completed |-> "completed_at",
            canceled |-> "canceled_at"]

Reached(id, status) ==
  \E i \in 1..Len(history[id]) : history[id][i].to_status = status

C8_ReasonIffCanceled ==
  \A id \in DOMAIN rides :
    (rides[id].cancellation_reason # NULL) <=> (rides[id].status = "canceled")

\* C9: a call whose target is outside the status set ends with the
\* invalid-status error and has sent no statement to the store.
C9_InvalidStatusFirst ==
  \A c \in Calls :
    (calls[c].op = "change" /\ calls[c].to_status \notin STATUSES) =>
      /\ calls[c].pc = "done"
      /\ calls[c].result = "ValueError"
      /\ calls[c].sql = 0
      /\ calls[c].prev = "NotRead"

\* C9 witness: such calls have returned while no ride exists, one by a known
\* role and one by an unknown role.
C9_Witness ==
  /\ rides = <<>>
  /\ \E c \in Calls :
       /\ calls[c].result = "ValueError" /\ calls[c].to_status = "teleported"
       /\ calls[c].role = "system"
  /\ \E c \in Calls :
       /\ calls[c].result = "ValueError" /\ calls[c].role = "admin"

\* C10: a call with a valid target that its role can reach from no status is
\* turned down and has sent no statement to the store.
C10_NoSourceNoStatement ==
  \A c \in Calls :
    (/\ calls[c].op = "change"
     /\ calls[c].to_status \in STATUSES
     /\ \A s \in STATUSES :
          <<calls[c].role, s, calls[c].to_status>> \notin SpecTransitions) =>
      /\ calls[c].pc = "done"
      /\ calls[c].result = "None"
      /\ calls[c].sql = 0
      /\ calls[c].prev = "NotRead"

\* C10 witness: a client's call for started and a driver's call for
\* driver_assigned have returned.
C10_Witness ==
  /\ \E c \in Calls :
       /\ calls[c].pc = "done" /\ calls[c].role = "client"
       /\ calls[c].to_status = "started" /\ calls[c].result = "None"
  /\ \E c \in Calls :
       /\ calls[c].pc = "done" /\ calls[c].role = "driver"
       /\ calls[c].to_status = "driver_assigned" /\ calls[c].result = "None"

\* ---- the rejections of change_status
\* a call of change_status that has returned without applying a transition
Rejected(c) ==
  /\ calls[c].op = "change"
  /\ calls[c].pc = "done"
  /\ calls[c].result \in {"ValueError", "None"}

\* the specification's name for the rejection: by the check that turned the
\* call down, or by what its statement found
RejectionKind(c) ==
  IF calls[c].to_status \notin STATUSES THEN "InvalidStatus"
  ELSE IF calls[c].prev = "NotRead" THEN "RoleNotPermitted"
  ELSE IF calls[c].prev = "NoRow" THEN "NoMatchingRide"
  ELSE "TransitionRejected"

\* C11: calls rejected for different reasons (role not permitted, no such
\* ride, ride in a status the transition cannot leave) return different
\* results to their callers.
C11_DistinctRejections ==
  \A c, d \in Calls :
    (Rejected(c) /\ Rejected(d) /\ RejectionKind(c) # RejectionKind(d)) =>
      calls[c].result # calls[d].result

C13_RejectionsChangeNothing ==
  [][\A c \in Calls :
       (/\ calls'[c] # calls[c]
        /\ calls'[c].op = "change"
        /\ calls'[c].result \in {"ValueError", "None"}) =>
         /\ rides' = rides
         /\ history' = history]_vars

\* C13 witness: a call was rejected for the status of its ride and another
\* for its target, and the ride and its history are as the first found them.
C13_Witness ==
  \E c, d \in Calls :
    /\ Rejected(c) /\ RejectionKind(c) = "TransitionRejected"
    /\ Rejected(d) /\ RejectionKind(d) = "InvalidStatus"
    /\ rides[calls[c].ride_id].status = calls[c].prev
    /\ Last(history[calls[c].ride_id]).to_status = calls[c].prev

\* C14: every ride has its genesis entry, and a step adds to a ride's history
\* exactly one entry for each call of change_status on that ride that returns
\* success in that step, one entry when the ride is created, and none
\* otherwise: the entries number one more than the successful calls.
C14_OneEntryPerSuccess ==
  /\ [](\A id \in DOMAIN rides : Len(history[id]) >= 1)
  /\ [][\A id \in RideIds :
          LET succeeded ==
                {c \in Calls : /\ calls[c].pc # "done"
                               /\ calls'[c].pc = "done"
                               /\ calls'[c].op = "change"
                               /\ calls'[c].result = "Ride"
                               /\ calls'[c].ride_id = id}
              created == IF id \notin DOMAIN rides /\ id \in DOMAIN rides'
                           THEN 1 ELSE 0
          IN Len(history'[id]) =
               Len(history[id]) + Cardinality(succeeded) + created]_vars

\* C14 witness: two calls on a ride have succeeded and a third entry and a
\* second stand in its history beside the genesis entry.
C14_Witness ==
  \E c, d \in Calls :
    /\ c # d
    /\ calls[c].pc = "done" /\ calls[c].op = "change" /\ calls[c].result = "Ride"
    /\ calls[d].pc = "done" /\ calls[d].op = "change" /\ calls[d].result = "Ride"
    /\ calls[c].ride_id = calls[d].ride_id
    /\ Len(history[calls[c].ride_id]) >= 3
    /\ history[calls[c].ride_id][1].from_status = NULL

\* C15, under SpecUpdate: no step of create, update or change_status changes
\* or removes an entry of a history; the history after the step has the
\* history before it as a prefix.
C15_AppendOnly ==
  [][\A id \in RideIds :
       /\ Len(history[id]) <= Len(history'[id])
       /\ SubSeq(history'[id], 1, Len(history[id])) = history[id]]_vars

\* C15 witness: a ride has been updated and has been moved by change_status, and
\* its history holds the genesis entry and the entry of the move.
C15_Witness ==
  \E c, d \in Calls :
    /\ calls[c].pc = "done" /\ calls[c].op = "update" /\ calls[c].result = "Ride"
    /\ calls[d].pc = "done" /\ calls[d].op = "change" /\ calls[d].result = "Ride"
    /\ calls[d].prev = "requested"
    /\ Len(history[calls[d].ride_id]) = 2
    /\ history[calls[d].ride_id][1].from_status = NULL

\* C16: the first entry of every history leads from null to requested, and
\* every later entry has a from_status that is not null.
C16_GenesisFirstAndOnly ==
  \A id \in RideIds :
    history[id] # <<>> =>
      /\ history[id][1].from_status = NULL
      /\ history[id][1].to_status = "requested"
      /\ \A i \in 2..Len(history[id]) : history[id][i].from_status \in STATUSES

\* C16 witness: a ride was created and then moved by a call of change_status.
C16_Witness ==
  \E c, d \in Calls :
    /\ calls[c].pc = "done" /\ calls[c].op = "create" /\ calls[c].result = "Ride"
    /\ calls[d].pc = "done" /\ calls[d].op = "change" /\ calls[d].result = "Ride"
    /\ Len(history[calls[d].ride_id]) = 2

C18_CreateAtomic ==
  \A id \in RideIds :
    /\ (id \in DOMAIN rides) <=> (history[id] # <<>>)
    /\ id \in DOMAIN rides =>
         /\ history[id][1].from_status = NULL
         /\ history[id][1].changed_by = rides[id].client_id

\* C18 witness: a creation failed after it had inserted the ride and before
\* it inserted the genesis entry, and the store holds neither.
C18_Witness ==
  /\ \E c \in Calls :
       /\ calls[c].pc = "done" /\ calls[c].op = "create"
       /\ calls[c].result = "Error" /\ calls[c].sql = 1
  /\ rides = <<>>
  /\ \A id \in RideIds : history[id] = <<>>

C20_NeverRemoved ==
  \A id \in DOMAIN rides : rides[id] # Gone

\* C21: in every history the entries stand in the order of their created_at:
\* no entry has a created_at earlier than that of an entry committed before
\* it (an equal created_at is two writes within one reading of the clock).
C21_CreatedAtOrdersHistory ==
  \A id \in DOMAIN rides :
    \A i, j \in 1..Len(history[id]) :
      i < j => history[id][i].created_at <= history[id][j].created_at

\* is_allowed(current_status, role, target_status): the forward lookup
ForwardAllows(role, current_status, target_status) ==
  /\ role \in DOMAIN ALLOWED_TRANSITIONS
  /\ current_status \in DOMAIN ALLOWED_TRANSITIONS[role]
  /\ target_status \in ALLOWED_TRANSITIONS[role][current_status]

\* C22: for the role and the target of every call, the allowed-from set the
\* call computes is the set of statuses from which the forward table lets the
\* role reach the target, and the call sends its statement exactly when that
\* set is not empty.
C22_ReverseEqualsForward ==
  \A c \in Calls :
    (calls[c].op = "change" /\ calls[c].to_status \in STATUSES) =>
      LET forward == {s \in STATUSES :
                        ForwardAllows(calls[c].role, s, calls[c].to_status)}
      IN /\ AllowedFrom(calls[c].role, calls[c].to_status) = forward
         /\ (calls[c].sql = 1) <=> (forward # {})
         /\ (calls[c].prev \in STATUSES /\ calls[c].result # "Error") =>
              (calls[c].result = "Ride" <=> calls[c].prev \in forward)

\* C22 witness: a driver's call for canceled has sent its statement, and a
\* driver's call for driver_assigned has been turned down without one.
C22_Witness ==
  \E c, d \in Calls :
    /\ calls[c].role = "driver" /\ calls[c].to_status = "canceled"
    /\ calls[c].pc = "executed" /\ calls[c].prev = "requested"
    /\ calls[c].result = "None"
    /\ calls[d].role = "driver" /\ calls[d].to_status = "driver_assigned"
    /\ calls[d].pc = "done" /\ calls[d].sql = 0

C24_FailureIsNotRejection ==
  /\ [][\A c \in Calls :
          (/\ calls[c].op = "change"
           /\ calls[c].pc \in {"begun", "executed"}
           /\ calls'[c].pc = "done"
           /\ calls'[c].result # calls[c].result) =>
            /\ calls'[c].result = "Error"
            /\ rides' = rides
            /\ history' = history]_vars
  /\ [](\A c \in Calls :
          (/\ calls[c].op = "change" /\ calls[c].pc = "done"
           /\ calls[c].sql = 1 /\ calls[c].prev = "NotRead") =>
            calls[c].result = "Error")
  /\ [](\A c \in Calls :
          Rejected(c) => RejectionKind(c) # "TransitionRejected"
                           \/ calls[c].prev \in STATUSES
                                 \ AllowedFrom(calls[c].role, calls[c].to_status))

\* C24 witness: a call has given up waiting for the lock that another call,
\* which has updated the ride and not committed, still holds; the ride is
\* as it was.
C24_Witness ==
  \E c, d \in Calls :
    /\ calls[c].pc = "done" /\ calls[c].op = "change"
    /\ calls[c].result = "Error" /\ calls[c].prev = "NotRead"
    /\ calls[d].pc = "executed" /\ calls[d].op = "change"
    /\ calls[d].result = "Ride"
    /\ calls[d].ride_id = calls[c].ride_id
    /\ rides[calls[d].ride_id].status = calls[d].prev

\* C25, under SpecPair: no step of a call of change_status changes a ride
\* other than the call's own or that ride's history; the statement of a call
\* is answered by the status of its own ride alone; and a call never waits
\* for a call on another ride.
C25_RidesIndependent ==
  /\ [][\A c \in Calls :
          (calls'[c] # calls[c] /\ calls'[c].op = "change") =>
            \A b \in DOMAIN rides \ {calls'[c].ride_id} :
              rides'[b] = rides[b] /\ history'[b] = history[b]]_vars
  /\ [][\A c \in Calls :
          (calls[c].op = "change" /\ calls[c].pc = "begun"
             /\ calls'[c].pc = "executed") =>
            /\ calls'[c].prev = rides[calls[c].ride_id].status
            /\ calls'[c].result = "Ride" <=>
                 ForwardAllows(calls[c].role, rides[calls[c].ride_id].status,
                               calls[c].to_status)]_vars
  /\ [](\A c \in Calls :
          (/\ calls[c].op = "change" /\ calls[c].pc = "begun"
           /\ \A d \in Calls \ {c} : calls[d].ride_id # calls[c].ride_id) =>
            ENABLED Exec(c))

\* C25 witness: a call has updated one ride and holds its row, and a call on
\* the other ride has run meanwhile and has updated that one.
C25_Witness ==
  \E c, d \in Calls :
    /\ calls[c].op = "change" /\ calls[c].pc = "executed"
    /\ calls[c].result = "Ride" /\ calls[c].ride_id = 1
    /\ calls[d].op = "change" /\ calls[d].pc = "executed"
    /\ calls[d].result = "Ride" /\ calls[d].ride_id = 2
    /\ rides[1].status = calls[c].prev
    /\ rides[2].status = calls[d].prev

\* C26: a call of change_status returns a ride exactly when the step in which
\* it returns applies its transition: then the ride has the call's target as
\* status and the history ends with the call's entry; a call that returns
\* anything else has changed no ride and no history.
C26_RideIffApplied ==
  [][\A c \in Calls :
       (/\ calls'[c].op = "change"
        /\ calls[c].pc # "done"
        /\ calls'[c].pc = "done") =>
         LET id == calls'[c].ride_id
         IN /\ calls'[c].result = "Ride" <=>
                 (id \in DOMAIN rides /\ rides'[id] # rides[id])
            /\ calls'[c].result = "Ride" =>
                 /\ rides'[id].status = calls'[c].to_status
                 /\ Last(history'[id]).to_status = calls'[c].to_status
            /\ calls'[c].result # "Ride" =>
                 /\ rides' = rides
                 /\ history' = history]_vars

\* C26 witness: one call has returned a ride and the ride has its target,
\* and another call on the same ride, which found it in that status, has
\* returned none.
C26_Witness ==
  \E c, d \in Calls :
    /\ calls[c].pc = "done" /\ calls[c].op = "change" /\ calls[c].result = "Ride"
    /\ calls[d].pc = "done" /\ calls[d].op = "change" /\ calls[d].result = "None"
    /\ calls[d].ride_id = calls[c].ride_id
    /\ calls[d].prev = calls[c].to_status
    /\ rides[calls[c].ride_id].status = calls[c].to_status

C29_EntriesArePermitted ==
  /\ [](\A id \in DOMAIN rides :
          \A i \in 2..Len(history[id]) :
            /\ <<history[id][i].actor_role, history[id][i].from_status,
                  history[id][i].to_status>> \in SpecTransitions
            /\ history[id][i].from_status = history[id][i - 1].to_status)
  /\ [][\A c \in Calls :
          (/\ calls[c].op = "change" /\ calls[c].pc = "executed"
           /\ calls'[c].pc = "done" /\ calls'[c].result = "Ride") =>
            LET e == Last(history'[calls[c].ride_id])
            IN /\ e.from_status = calls[c].prev
               /\ e.from_status = rides[calls[c].ride_id].status
               /\ e.to_status = calls[c].to_status
               /\ e.actor_role = calls[c].role
               /\ e.changed_by = calls[c].actor_id]_vars

\* C29 witness: a driver has moved a ride, and a client has then canceled it.
C29_Witness ==
  \E c, d \in Calls :
    /\ calls[c].pc = "done" /\ calls[c].result = "Ride" /\ calls[c].role = "driver"
    /\ calls[d].pc = "done" /\ calls[d].result = "Ride" /\ calls[d].role = "client"
    /\ calls[d].prev = calls[c].to_status
    /\ Last(history[calls[d].ride_id]).actor_role = "client"
    /\ Last(history[calls[d].ride_id]).from_status = calls[c].to_status

\* the statuses in the order of the lifecycle
StatusRank ==
  [requested |-> 1, driver_assigned |-> 2, accepted |-> 3, arrived |-> 4,
   started |-> 5, completed |-> 6, canceled |-> 7]

\* C30: in every history the to_status of a later entry stands later in the
\* lifecycle than that of an earlier one, so no status appears twice, and a
\* history has at most six entries.
C30_EachStatusOnce ==
  \A id \in DOMAIN rides :
    /\ \A i, j \in 1..Len(history[id]) :
         i < j => StatusRank[history[id][i].to_status]
                    < StatusRank[history[id][j].to_status]
    /\ Len(history[id]) <= 6

\* C30 witness: a ride has made its fifth transition and a further call on
\* it was rejected.
C30_Witness ==
  \E c, d \in Calls :
    /\ calls[c].pc = "done" /\ calls[c].op = "change" /\ calls[c].result = "Ride"
    /\ calls[c].prev = "started"
    /\ calls[d].pc = "done" /\ calls[d].op = "change" /\ calls[d].result = "None"
    /\ calls[d].prev = calls[c].to_status
    /\ Len(history[calls[c].ride_id]) = 6

\* C28, under SpecStore: a delete of an id that is not present finds no row,
\* reports not-found and changes nothing; the commit of a delete that found
\* its row removes that row and no other; a removed row stays removed; and a
\* read reports not-found exactly for the ids that were never present or
\* were removed.
C28_DeleteThenNotFound ==
  /\ [][\A c \in Calls :
          (/\ calls[c].op = "delete" /\ calls[c].pc = "begun"
           /\ calls'[c].pc = "executed") =>
            LET id == calls[c].ride_id
            IN (calls'[c].result = "None")
                 <=> (id \notin DOMAIN rides \/ rides[id] = Gone)]_vars
  /\ [][\A c \in Calls :
          (/\ calls[c].op = "delete" /\ calls[c].pc = "executed"
           /\ calls'[c].pc = "done" /\ calls'[c].result # "Error") =>
            LET id == calls[c].ride_id
            IN /\ calls'[c].result = calls[c].result
               /\ calls[c].result = "None" =>
                    rides' = rides /\ history' = history
               /\ calls[c].result = "Ride" =>
                    /\ rides[id] # Gone
                    /\ rides'[id] = Gone
                    /\ DOMAIN rides' = DOMAIN rides
                    /\ \A b \in DOMAIN rides \ {id} :
                         rides'[b] = rides[b] /\ history'[b] = history[b]]_vars
  /\ [][\A id \in DOMAIN rides : rides[id] = Gone => rides'[id] = Gone]_vars
  /\ [][\A c \in Calls :
          (calls[c].pc = "idle" /\ calls'[c].op = "get") =>
            LET id == calls'[c].ride_id
            IN (calls'[c].result = "None")
                 <=> (id \notin DOMAIN rides \/ rides[id] = Gone)]_vars

\* C28 witness: row 1 was deleted, a read of id 1 after that has reported
\* not-found, and row 2 is still there.
C28_Witness ==
  \E c, d \in Calls :
    /\ calls[c].pc = "done" /\ calls[c].op = "delete" /\ calls[c].result = "Ride"
    /\ calls[c].ride_id = 1
    /\ calls[d].pc = "done" /\ calls[d].op = "get" /\ calls[d].result = "None"
    /\ calls[d].ride_id = 1
    /\ rides[1] = Gone
    /\ rides[2] # Gone
\* C31: change_status does not retry.  Once a call's statement has read the
\* status under the lock, what it read and what it decided stay as they are
\* until the call has returned; a step of a call whose statement matched no
\* row, or of a call that has its answer, changes no ride and no history,
\* whatever status the ride has reached in between; and the one step of a call
\* that changes the store moves the ride to the call's target, appends one
\* entry and ends the call.
C31_NoRetry ==
  [][\A c \in Calls :
       /\ (/\ calls[c].op = "change" /\ calls[c].prev # "NotRead"
           /\ calls'[c].op = "change") =>
            /\ calls'[c].prev = calls[c].prev
            /\ calls'[c].result \in {calls[c].result, "Error"}
            /\ calls'[c].pc \in {calls[c].pc, "done"}
       /\ (/\ calls[c].op = "change" /\ calls'[c] # calls[c]
           /\ \/ calls[c].pc = "done"
              \/ calls[c].prev # "NotRead" /\ ~Updated(calls[c])) =>
            /\ rides' = rides
            /\ history' = history
       /\ (/\ calls[c].op = "change" /\ calls'[c] # calls[c]
           /\ (rides' # rides \/ history' # history)) =>
            /\ calls'[c].pc = "done"
            /\ rides'[calls[c].ride_id].status = calls[c].to_status
            /\ history'[calls[c].ride_id] =
                 Append(history[calls[c].ride_id], InsRow(calls[c]))
            /\ \A id \in DOMAIN rides :
                 id # calls[c].ride_id =>
                   rides'[id] = rides[id] /\ history'[id] = history[id]]_vars

\* C31 witness: a driver's call for arrived found the ride in driver_assigned
\* and was rejected; the ride has since been accepted, a status from which the
\* call's target is allowed, and the ride is still in accepted with no entry
\* of that call.
C31_Witness ==
  \E c \in Calls :
    /\ Rejected(c) /\ RejectionKind(c) = "TransitionRejected"
    /\ calls[c].prev = "driver_assigned" /\ calls[c].to_status = "arrived"
    /\ rides[calls[c].ride_id].status = "accepted"
    /\ "accepted" \in AllowedFrom(calls[c].role, calls[c].to_status)
    /\ \A i \in DOMAIN history[calls[c].ride_id] :
         history[calls[c].ride_id][i].to_status # "arrived"

\* C32: under fair scheduling, when every transaction that holds the row lock
\* of the ride commits or rolls back, every call of change_status whose
\* statement has been sent returns at some time; and calls on one ride do not
\* block each other for good: while some call waits for the row lock, the
\* session that holds it waits for no lock.
C32_EveryCallReturns ==
  /\ \A c \in Calls : (calls[c].pc = "begun") ~> (calls[c].pc = "done")
  /\ [](\A c \in Calls :
          (calls[c].pc = "begun" /\ RowLockedByOther(c, calls[c].ride_id)) =>
            \E d \in Calls \ {c} :
              /\ calls[d].pc = "executed"
              /\ calls[d].ride_id = calls[c].ride_id
              /\ ENABLED Commit(d))

\* C32 witness: all calls of the race have returned without a failure, and
\* one of them read the status the other had committed: it had waited for the
\* other's lock or came after it.
C32_Witness ==
  /\ RaceOver /\ NoFailure
  /\ \E c, d \in Racers :
       /\ c # d
       /\ calls[d].result = "Ride"
       /\ calls[c].prev = calls[d].to_status

\* C34: the step that applies a transition sets the ride's status_reason to
\* the reason of the call that made it, null when the call carries none, and
\* writes the same reason into the entry it appends; so the status_reason of
\* every ride is the reason of its most recent history entry.
C34_ReasonOfLastTransition ==
  /\ [](\A id \in DOMAIN rides :
          Exists(id) => rides[id].status_reason = Last(history[id]).reason)
  /\ [][\A c \in Calls :
          (/\ calls[c].op = "change" /\ calls[c].pc = "executed"
           /\ calls'[c].pc = "done" /\ calls'[c].result = "Ride") =>
            /\ rides'[calls[c].ride_id].status_reason = calls[c].reason
            /\ Last(history'[calls[c].ride_id]).reason = calls[c].reason]_vars

\* C34 witness: a transition with a reason was followed by one without, and
\* the ride's status_reason is null again.
C34_Witness ==
  \E id \in DOMAIN rides :
    /\ Exists(id)
    /\ Len(history[id]) >= 3
    /\ history[id][Len(history[id]) - 1].reason = "r1"
    /\ Last(history[id]).reason = NULL
    /\ rides[id].status_reason = NULL

\* C35: of a ride that was created with null times and is changed by
\* change_status alone, completed_at and canceled_at are never both set,
\* completed_at is set only when started_at is, and each of the three times is
\* set exactly when the history has an entry that leads to its status.
C35_StampsFollowLifecycle ==
  \A id \in DOMAIN rides :
    Exists(id) =>
      /\ ~(rides[id].completed_at # NoTime /\ rides[id].canceled_at # NoTime)
      /\ rides[id].completed_at # NoTime => rides[id].started_at # NoTime
      /\ \A s \in DOMAIN StampOf :
           rides[id][StampOf[s]] # NoTime <=> Reached(id, s)

\* C35 witness: a ride that was started has been canceled by a call: it has
\* started_at and canceled_at, and no completed_at.
C35_Witness ==
  \E id \in DOMAIN rides, c \in Calls :
    /\ Exists(id)
    /\ calls[c].pc = "done" /\ calls[c].result = "Ride"
    /\ calls[c].ride_id = id /\ calls[c].to_status = "canceled"
    /\ rides[id].started_at # NoTime
    /\ rides[id].canceled_at # NoTime
    /\ rides[id].completed_at = NoTime

\* C36: a call by the system role with target canceled whose statement finds
\* the ride in a status other than completed and canceled is applied, so no
\* such status is a dead end; a call by the client role is applied exactly
\* when its target is canceled and it finds the ride in requested,
\* driver_assigned or accepted; a call by the driver role that finds the ride
\* in requested is never applied.
C36_NoDeadEnd ==
  \A c \in Calls :
    (Answered(c) /\ calls[c].prev \in STATUSES /\ calls[c].result # "Error") =>
      /\ (/\ calls[c].role = "system" /\ calls[c].to_status = "canceled"
          /\ calls[c].prev \notin Terminal) => calls[c].result = "Ride"
      /\ calls[c].role = "client" =>
           (calls[c].result = "Ride" <=>
              /\ calls[c].to_status = "canceled"
              /\ calls[c].prev \in {"requested", "driver_assigned", "accepted"})
      /\ (calls[c].role = "driver" /\ calls[c].prev = "requested") =>
           calls[c].result = "None"

\* C36 witness: the system has canceled a ride that was started, and a
\* client's call to cancel a ride it found started was rejected.
C36_Witness ==
  \E c, d \in Calls :
    /\ calls[c].pc = "done" /\ calls[c].role = "system"
    /\ calls[c].to_status = "canceled" /\ calls[c].prev = "started"
    /\ calls[c].result = "Ride"
    /\ rides[calls[c].ride_id].status = "canceled"
    /\ Rejected(d) /\ calls[d].role = "client"
    /\ calls[d].to_status = "canceled" /\ calls[d].prev = "started"

\* ---- the connection manager
\* C33: when a call of send_personal_message ends, every connection that was
\* in the user's list when the call began and is in it still has had its
\* send attempt, whatever connect, disconnect or other sends have done at the
\* await points.
C33_EveryConnectionAttempted ==
  [][\A t \in Senders :
       (sends[t].pc = "sending" /\ sends'[t].pc = "done") =>
         \A ws \in sends[t].listed :
           (/\ ~sends[t].detached
            /\ InList(ws, active_connections[sends[t].user_id])) =>
             ws \in sends[t].attempted]_vars

\* C37: no user is a key of active_connections with an empty list of
\* connections: get_online_users lists exactly the users for which
\* is_connected is true.
C37_NoEmptyConnectionList ==
  /\ \A u \in DOMAIN active_connections : active_connections[u] # <<>>
  /\ get_online_users = {u \in WsUsers : is_connected(u)}

\* C38: no call of send_personal_message ends with an exception of its
\* cleanup: it never removes a connection that is not in the user's list and
\* never looks up a user whose key is deleted.
C38_CleanupNeverRaises ==
  \A t \in Senders : sends[t].result \notin {"KeyError", "ValueError"}

\* the websocket is in the list of some user of the registry
Registered(ws) ==
  \E u \in DOMAIN active_connections : InList(ws, active_connections[u])

\* C39: a websocket that its endpoint has registered and whose client has
\* gone away is removed from the registry at some time, and a websocket whose
\* receive loop has ended, by a disconnect or by an exception of the message
\* handling, is in no list; the step that ends the loop leaves
\* ride_participants as it is, and a user leaves a room by leave_ride alone.
C39_RemovedOnLoopEnd ==
  /\ \A ws \in Sockets :
       (sockets[ws].pc = "open" /\ ~sockets[ws].alive) ~> ~Registered(ws)
  /\ [](\A ws \in Sockets : sockets[ws].pc = "ended" => ~Registered(ws))
  /\ [][\A ws \in Sockets :
          (sockets[ws].pc = "open" /\ sockets'[ws].pc = "ended") =>
            ride_participants' = ride_participants]_vars
  /\ [][\A r \in DOMAIN ride_participants, u \in WsUsers :
          (/\ u \in ride_participants[r]
           /\ r \in DOMAIN ride_participants' => u \notin ride_participants'[r]) =>
            \E v \in Sockets : SocketUser(v) = u /\ HandleLeaveRide(v, r)]_vars

\* C39 witness: user 1 has joined room 1, the receive loops of all of its
\* websockets have ended, none of them is registered, and the user is still a
\* member of the room.
C39_Witness ==
  /\ \A ws \in Sockets : SocketUser(ws) = 1 => sockets[ws].pc = "ended"
  /\ \A ws \in Sockets : ~Registered(ws)
  /\ 1 \notin DOMAIN active_connections
  /\ 1 \in DOMAIN ride_participants /\ 1 \in ride_participants[1]

\* ---- update_user_balance
\* the transactions of a user that its balance_updated_at marks as counted
\* (no two timestamps are equal)
Counted(u) ==
  {tx \in transactions :
     tx.user_id = u /\ tx.created_at <= users[u].balance_updated_at}

\* C40: the balance of a user is at all times the initial balance plus the
\* signed sum of its transactions counted so far, each once; a call that
\* finds no new transaction leaves the committed balance as it is; and a call
\* for a user that does not exist ends with an error and changes no row.
C40_EveryTransactionOnce ==
  /\ [](\A u \in DOMAIN users :
          users[u].balance = InitialBalance + SumSigned(Counted(u)))
  /\ [][\A c \in BalCalls :
          (/\ bal[c].pc = "updated" /\ bal'[c].pc = "done"
           /\ bal[c].rows = {}) =>
            users'[bal[c].p_user_id].balance = users[bal[c].p_user_id].balance]_vars
  /\ [][\A c \in BalCalls :
          (bal'[c] # bal[c] /\ bal'[c].p_user_id \notin DOMAIN users) =>
            /\ users' = users
            /\ bal'[c].pc \in {"idle", "begun", "done"}
            /\ bal'[c].pc = "done" => bal'[c].result = "Error"]_vars

====
